---- MODULE Spec2Model ----
(***************************************************************************)
(* WaybackProxy shared runtime state: the expiring LRU dictionary          *)
(* (utils/lru.py), the shared state built from it (core/cache.py: two      *)
(* caches and a connection pool) and the date-change callback that clears  *)
(* the caches (__main__.py).                                               *)
(*                                                                         *)
(* A cache is the OrderedDict of LRUDict: a sequence of entries            *)
(* [key, val, ts], front (index 1) first.  LRUDict takes no lock, so the   *)
(* threaded specifications interleave its methods at the granularity of    *)
(* the OrderedDict primitives they call (each primitive is one C call and  *)
(* is atomic under the interpreter lock; the Python code between two       *)
(* primitives is not).                                                     *)
(***************************************************************************)
EXTENDS Integers, Sequences, FiniteSets, TLC

VARIABLES
    caches,       \* cache id -> sequence of entries (the OrderedDict)
    now,          \* what time.time() returns
    maxsize,      \* LRUDict.maxsize
    maxduration,  \* LRUDict.maxduration (0 stands for 0 or None)
    last,         \* the call the single caller completed last
    pc,           \* thread -> position inside the LRUDict method it runs
    loc,          \* thread -> the locals of that method
    DATE,         \* Handler.DATE, as the ordinal of the reference date
    clearPc,      \* position of the date-change callback
    seen,         \* thread -> what its reads observed while a clear ran
    out,          \* thread -> how its last call ended
    writer,       \* the thread whose __setitem__ wrote last
    pool,         \* the connection pool: per host, the connections leased,
                  \* the acquisitions blocked, and whether one was released
    srv,          \* the proxy server: its lifecycle state, the position of
                  \* main(), the workers spawned that have not asked for an
                  \* outbound connection yet
    ui,           \* the date selector (year, month, day, selected segment),
                  \* the date line of the display, and the last operation
    inp           \* the input side of the UI: the rotary decoder, the queue
                  \* of rotation deltas, and the position of the event loop

vars == <<caches, now, maxsize, maxduration, last, pc, loc, DATE, clearPc,
          seen, out, writer, pool, srv, ui, inp>>

----------------------------------------------------------------------------
(* Bounds *)

Keys == {"a", "b", "c"}
Vals == {1, 2}
Threads == {"t1", "t2"}
CacheIds == {"date", "avail"}
MaxTime == 3
MaxSizeCfg == 2
Duration == 2
MaxLag == 1

\* The default get() returns for an absent key (None).
Default == 0

----------------------------------------------------------------------------
(* OrderedDict primitives, on a sequence of entries *)

Entry(k, v, t) == [key |-> k, val |-> v, ts |-> t]

KeysOf(c) == {c[i].key : i \in 1..Len(c)}

HasKey(c, k) == k \in KeysOf(c)

IndexOf(c, k) == CHOOSE i \in 1..Len(c) : c[i].key = k

Lookup(c, k) == c[IndexOf(c, k)]

\* OrderedDict.__setitem__: an existing key keeps its position, a new key is
\* appended at the end.
RawSet(c, k, v, t) ==
    IF HasKey(c, k)
    THEN [c EXCEPT ![IndexOf(c, k)] = Entry(k, v, t)]
    ELSE Append(c, Entry(k, v, t))

\* OrderedDict.popitem(last=False) on a non-empty dict.
PopFront(c) == Tail(c)

\* OrderedDict.move_to_end(key) on a present key.
MoveToEnd(c, k) ==
    LET e == Lookup(c, k)
    IN  Append(SelectSeq(c, LAMBDA x : x.key # k), e)

----------------------------------------------------------------------------
(* LRUDict.purge *)

OverflowingOneMore(c) ==
    IF Len(c) - maxsize + 1 > 0 THEN Len(c) - maxsize + 1 ELSE 0

OverflowingOffByOne(c) ==
    IF Len(c) - maxsize - 1 > 0 THEN Len(c) - maxsize - 1 ELSE 0

\* overflowing = max(0, len(self) - self.maxsize)
Overflowing(c) ==
    IF Len(c) - maxsize > 0 THEN Len(c) - maxsize ELSE 0

RECURSIVE PopN(_, _)
\* for _ in range(n): self.popitem(last=False)
PopN(c, n) == IF n = 0 \/ c = <<>> THEN c ELSE PopN(PopFront(c), n - 1)

SizePhaseUnguarded(c) == PopN(c, Overflowing(c))

\* if self.maxsize: ... (the size phase)
SizePhase(c) == IF maxsize # 0 THEN PopN(c, Overflowing(c)) ELSE c

WithinLimitNever(e, limit) == FALSE

\* if lru > limit: break
WithinLimit(e, limit) == e.ts > limit

RECURSIVE AgeLoop(_, _)
\* while self: look at the front; stop if it is within the limit, else pop it
AgeLoop(c, limit) ==
    IF c = <<>> THEN c
    ELSE IF WithinLimit(Head(c), limit) THEN c
    ELSE AgeLoop(PopFront(c), limit)

\* if self.maxduration: limit = time.time() - self.maxduration ...
AgePhase(c, t) == IF maxduration # 0 THEN AgeLoop(c, t - maxduration) ELSE c

Purge(c, t) == AgePhase(SizePhase(c), t)

----------------------------------------------------------------------------
(* LRUDict methods, run by a single caller *)

\* __setitem__: the entry is stamped at time t1, purge reads the clock at t2.
SetItem(c, k, v, t1, t2) == Purge(RawSet(c, k, v, t1), t2)

GetItemNoMove(c, k, t) == RawSet(c, k, Lookup(c, k).val, t)

GetItemNoStamp(c, k, t) == MoveToEnd(c, k)

\* __getitem__ on a present key: restamp, move to the end.
GetItem(c, k, t) == MoveToEnd(RawSet(c, k, Lookup(c, k).val, t), k)

NoCall == [op |-> "none"]

SeqCaches == {"date"}

\* The locals of a call: the method, its arguments, and purge's overflowing
\* and limit; wt is the time __setitem__ stamped, ov whether another thread's
\* __setitem__ of the same key ran while this one was in progress.
Locals(o, id, k, v, w) ==
    [op |-> o, cid |-> id, key |-> k, val |-> v, n |-> 0, limit |-> 0, wt |-> w,
     ov |-> FALSE]

Outcome(kind, v) == [kind |-> kind, val |-> v]

Hosts == {1, 2}
MaxHosts == 12
AllHosts == 1..MaxHosts

\* urllib3.PoolManager(...) as constructed: no host sub-pool, no connection
\* leased, nobody waiting.  Per host: the connections leased, the number of
\* acquisitions blocked and their waits (time waited, retries made), the
\* timeout failures reported to callers that have not handled them yet, and
\* whether a connection was released.  order lists the hosts that have a
\* sub-pool, least recently used first; evicted is the host whose sub-pool
\* was evicted last (0: none), fresh the next host never requested before,
\* made the number of requests made.
EmptyPool ==
    [leased |-> [h \in AllHosts |-> 0],
     blocked |-> [h \in AllHosts |-> 0],
     released |-> [h \in AllHosts |-> FALSE],
     waits |-> [h \in AllHosts |-> <<>>],
     failed |-> [h \in AllHosts |-> 0],
     order |-> <<>>,
     evicted |-> 0,
     fresh |-> 1,
     made |-> 0]

\* Before main() constructs the server: nothing listens, no worker exists.
\* code is main()'s return value (-1: it has not returned), bind the outcome
\* of binding the port, err whether an error was logged; whitelist is
\* SharedState.whitelist and file the whitelist file that was found.  shared
\* and dated tell whether handler_module.shared_state and Handler.DATE have
\* been assigned; mode is "headless" or "ui" (args.headless); display tells
\* whether main() has created, and then cleared, the display; exit is the way
\* the UI part of main() ended; shut whether server.shutdown() was invoked.
NoFile == [exists |-> FALSE, fails |-> FALSE, content |-> <<>>]

StoppedServer ==
    [state |-> "stopped", main |-> "start", fresh |-> 0, code |-> 0 - 1,
     bind |-> "none", err |-> FALSE, whitelist |-> <<>>, file |-> NoFile,
     shared |-> TRUE, dated |-> TRUE, mode |-> "headless", display |-> "none",
     exit |-> "none", shut |-> FALSE]

\* main() before SharedState() is built: nothing is assigned yet.
BootingServer(mode) ==
    [StoppedServer EXCEPT !.main = "boot", !.shared = FALSE, !.dated = FALSE,
                          !.mode = mode]

\* A date of the selector and the segment selected with it.
Selection(y, m, d, seg) == [year |-> y, month |-> m, day |-> d, seg |-> seg]

\* DateSelector(initial_date) and the controller before any input: the
\* segment "Y" is selected, the display shows nothing, no operation was made.
FreshUI(y, m, d) ==
    [year |-> y, month |-> m, day |-> d, seg |-> "Y", line |-> "blank",
     op |-> "none", before |-> Selection(y, m, d, "Y")]

\* DateSelector(): initial_date = "20070629".
DefaultUI == FreshUI(2007, 6, 29)

\* RotaryEncoder.__init__ and UIController.__init__: no edge seen, both
\* levels 0, the queue empty, the event loop about to test its condition.
\* edge is the edge handled last (prev: lastGpio as it found it, fired: the
\* delta it reported, 0 for none); put counts the deltas enqueued, early is
\* the set of those enqueued before shutdown was requested (asked), applied
\* lists the deltas the loop handled, events counts the input events; loop is
\* the position of UIController.start, shutdown is _shutdown_event, display
\* tells whether stop() has cleared the display.
NoEdge == [channel |-> "none", level |-> 0, prev |-> "none", fired |-> 0]

IdleInput ==
    [levA |-> 0, levB |-> 0, lastGpio |-> "none", edge |-> NoEdge,
     queue |-> <<>>, put |-> 0, early |-> {}, applied |-> <<>>,
     loop |-> "while", shutdown |-> FALSE, asked |-> FALSE, events |-> 0,
     display |-> "on"]

IdleThreads ==
    /\ pool = EmptyPool
    /\ srv = StoppedServer
    /\ ui = DefaultUI
    /\ inp = IdleInput
    /\ pc = [t \in Threads |-> "idle"]
    /\ loc = [t \in Threads |-> Locals("none", "date", "a", Default, 0)]
    /\ seen = [t \in Threads |-> "none"]
    /\ out = [t \in Threads |-> Outcome("none", Default)]
    /\ writer = "none"
    /\ DATE = 1
    /\ clearPc = "idle"

\* SharedState.__init__: both caches start empty; the configuration is fixed
\* at construction.
Init ==
    /\ caches = [id \in CacheIds |-> <<>>]
    /\ now = 0
    /\ maxsize \in 0..MaxSizeCfg
    /\ maxduration \in {0, Duration}
    /\ last = NoCall
    /\ IdleThreads

Frame ==
    UNCHANGED <<maxsize, maxduration, pc, loc, DATE, clearPc, seen, out, writer,
                pool, srv, ui, inp>>

\* time.time() advances, up to the horizon of the model.
Advance(horizon) ==
    /\ now < horizon
    /\ now' = now + 1
    /\ UNCHANGED <<caches, last>>
    /\ Frame

Tick == Advance(MaxTime)

\* cache[key] = value
Set(id, k, v) ==
    \E lag \in 0..MaxLag :
        /\ now + lag <= MaxTime
        /\ caches' = [caches EXCEPT ![id] = SetItem(@, k, v, now, now + lag)]
        /\ now' = now + lag
        /\ last' = [op |-> "set", cid |-> id, key |-> k, val |-> v,
                    done |-> now + lag,
                    before |-> caches[id],
                    written |-> RawSet(caches[id], k, v, now),
                    sized |-> SizePhase(RawSet(caches[id], k, v, now))]
        /\ Frame

\* cache.get(key, default)
Get(id, k) ==
    /\ IF HasKey(caches[id], k)
       THEN /\ caches' = [caches EXCEPT ![id] = GetItem(@, k, now)]
            /\ last' = [op |-> "get", cid |-> id, key |-> k,
                        val |-> Lookup(caches[id], k).val, before |-> caches[id]]
       ELSE /\ caches' = caches
            /\ last' = [op |-> "get", cid |-> id, key |-> k,
                        val |-> Default, before |-> caches[id]]
    /\ UNCHANGED now
    /\ Frame

Next ==
    \/ Tick
    \/ \E id \in SeqCaches, k \in Keys, v \in Vals : Set(id, k, v)
    \/ \E id \in SeqCaches, k \in Keys : Get(id, k)

Spec == Init /\ [][Next]_vars

----------------------------------------------------------------------------
(* One caller using get, set and ttl: what each call returns.  The record of *)
(* the last call carries the value last stored under each key and a summary  *)
(* of the call before it.                                                    *)

UseKeys == {"a", "b"}
UseMaxTime == 2
UseMaxSize == 2
UseDuration == 1
Missing == 0 - 1
UseDefaults == {Default, Missing}

\* How a call ends: a returned value, None, or a raised KeyError; cache is the
\* cache it leaves.
Result(kind, v, c) == [kind |-> kind, val |-> v, cache |-> c]

GetRaising(c, k, d, t) ==
    IF HasKey(c, k)
    THEN Result("value", Lookup(c, k).val, GetItem(c, k, t))
    ELSE Result("KeyError", Default, c)

\* get(key, default): self[key], or default when that raises KeyError.
GetDefault(c, k, d, t) ==
    IF HasKey(c, k)
    THEN Result("value", Lookup(c, k).val, GetItem(c, k, t))
    ELSE Result("value", d, c)

TtlRefreshing(c, k, t, T) ==
    IF HasKey(c, k)
    THEN Result("value", T - (t - Lookup(c, k).ts), GetItem(c, k, t))
    ELSE Result("KeyError", Default, c)

TtlElapsed(c, k, t, T) ==
    IF HasKey(c, k)
    THEN Result("value", t - Lookup(c, k).ts, c)
    ELSE Result("KeyError", Default, c)

\* ttl(key): with a maxduration T, the time the entry has left (KeyError for
\* an absent key); without one the method falls off its end and returns None.
Ttl(c, k, t, T) ==
    IF T # 0
    THEN IF HasKey(c, k)
         THEN Result("value", T - (t - Lookup(c, k).ts), c)
         ELSE Result("KeyError", Default, c)
    ELSE Result("None", Default, c)

\* The entry of k has been idle for maxduration or longer at time t.
Stale(c, k, t) == HasKey(c, k) /\ maxduration # 0 /\ t - Lookup(c, k).ts >= maxduration

\* What items() and values() yield when consumed, and the cache they leave:
\* the pairs (key, value), or the values, in the order of the cache, the
\* timestamps dropped.
Listing(seq, c) == [listed |-> seq, cache |-> c]

Items(c) == Listing([i \in 1..Len(c) |-> <<c[i].key, c[i].val>>], c)

Values(c) == Listing([i \in 1..Len(c) |-> c[i].val], c)

Summary(l) ==
    [op |-> l.op, key |-> l.key, at |-> l.at, stale |-> l.stale,
     kind |-> l.kind, val |-> l.val]

Call(o, k, r, d, sized, listed) ==
    [op |-> o, key |-> k, kind |-> r.kind, val |-> r.val, default |-> d,
     at |-> now, before |-> caches["date"], sized |-> sized,
     listed |-> listed,
     stale |-> Stale(caches["date"], k, now),
     stored |-> IF o = "set" THEN [last.stored EXCEPT ![k] = r.val]
                ELSE last.stored,
     prev |-> Summary(last)]

NoUse ==
    [op |-> "none", key |-> "a", kind |-> "None", val |-> Default,
     default |-> Default, at |-> 0, before |-> <<>>, sized |-> <<>>,
     listed |-> <<>>,
     stale |-> FALSE, stored |-> [k \in UseKeys |-> Default],
     prev |-> [op |-> "none", key |-> "a", at |-> 0, stale |-> FALSE,
               kind |-> "None", val |-> Default]]

InitUse ==
    /\ caches = [id \in CacheIds |-> <<>>]
    /\ now = 0
    /\ maxsize \in 0..UseMaxSize
    /\ maxduration \in {0, UseDuration}
    /\ last = NoUse
    /\ IdleThreads

TickUse ==
    /\ now < UseMaxTime
    /\ now' = now + 1
    /\ UNCHANGED <<caches, last>>
    /\ Frame

\* cache[key] = value
SetCall(k, v) ==
    /\ caches' = [caches EXCEPT !["date"] = SetItem(@, k, v, now, now)]
    /\ last' = Call("set", k, Result("None", v, caches'["date"]), Default,
                    SizePhase(RawSet(caches["date"], k, v, now)), <<>>)
    /\ UNCHANGED now
    /\ Frame

\* cache.get(key, default)
GetCall(k, d) ==
    LET r == GetDefault(caches["date"], k, d, now)
    IN  /\ caches' = [caches EXCEPT !["date"] = r.cache]
        /\ last' = Call("get", k, r, d, <<>>, <<>>)
        /\ UNCHANGED now
        /\ Frame

\* cache.ttl(key)
TtlCall(k) ==
    LET r == Ttl(caches["date"], k, now, maxduration)
    IN  /\ caches' = [caches EXCEPT !["date"] = r.cache]
        /\ last' = Call("ttl", k, r, Default, <<>>, <<>>)
        /\ UNCHANGED now
        /\ Frame

\* list(cache.items())
ItemsCall ==
    LET r == Items(caches["date"])
    IN  /\ caches' = [caches EXCEPT !["date"] = r.cache]
        /\ last' = Call("items", "a", Result("value", Default, r.cache),
                        Default, <<>>, r.listed)
        /\ UNCHANGED now
        /\ Frame

\* list(cache.values())
ValuesCall ==
    LET r == Values(caches["date"])
    IN  /\ caches' = [caches EXCEPT !["date"] = r.cache]
        /\ last' = Call("values", "a", Result("value", Default, r.cache),
                        Default, <<>>, r.listed)
        /\ UNCHANGED now
        /\ Frame

NextUse ==
    \/ TickUse
    \/ \E k \in UseKeys, v \in Vals : SetCall(k, v)
    \/ \E k \in UseKeys, d \in UseDefaults : GetCall(k, d)
    \/ \E k \in UseKeys : TtlCall(k)
    \/ ItemsCall
    \/ ValuesCall

SpecUse == InitUse /\ [][NextUse]_vars

----------------------------------------------------------------------------
(* LRUDict methods run by worker threads.  LRUDict holds no lock: a thread   *)
(* can be preempted between any two OrderedDict primitives of a method, so   *)
(* each primitive is one step.  A primitive's time.time() argument is read   *)
(* in the same step as the primitive.                                        *)

ConcCaches == {"date"}
ConcKeys == {"a", "b"}
ConcMaxTime == 1
ConcMaxSize == 1
ConcDuration == 1

\* SharedState.__init__ with the small configuration the threaded
\* specifications explore.
InitConc ==
    /\ caches = [id \in CacheIds |-> <<>>]
    /\ now = 0
    /\ maxsize \in 1..ConcMaxSize
    /\ maxduration \in {0, ConcDuration}
    /\ last = NoCall
    /\ IdleThreads

TickConc == Advance(ConcMaxTime)

Config == UNCHANGED <<maxsize, maxduration, pool, srv, ui, inp>>

Return(t, o) ==
    /\ pc' = [pc EXCEPT ![t] = "idle"]
    /\ out' = [out EXCEPT ![t] = o]

Goto(t, p) ==
    /\ pc' = [pc EXCEPT ![t] = p]
    /\ UNCHANGED out

\* What a read that hit value v observed: "half" when the date-change callback
\* was between its first and its last statement and v was stored under an
\* earlier reference date.
Observe(t, v) ==
    IF clearPc # "idle" /\ v < DATE THEN [seen EXCEPT ![t] = "half"] ELSE seen

\* get(): value = super().__getitem__(key)[0]; a KeyError makes get return
\* the default.
GetRead(t, id, k) ==
    /\ pc[t] = "idle"
    /\ IF HasKey(caches[id], k)
       THEN /\ loc' = [loc EXCEPT ![t] = Locals("get", id, k, Lookup(caches[id], k).val, 0)]
            /\ seen' = Observe(t, Lookup(caches[id], k).val)
            /\ Goto(t, "g_write")
       ELSE /\ loc' = [loc EXCEPT ![t] = Locals("get", id, k, Default, 0)]
            /\ seen' = seen
            /\ Return(t, Outcome("default", Default))
    /\ UNCHANGED <<caches, now, last, DATE, clearPc, writer>>
    /\ Config

\* __getitem__: super().__setitem__(key, (value, time.time()))
GetWrite(t) ==
    /\ pc[t] = "g_write"
    /\ caches' = [caches EXCEPT ![loc[t].cid] = RawSet(@, loc[t].key, loc[t].val, now)]
    /\ Goto(t, "g_move")
    /\ UNCHANGED <<now, last, loc, DATE, clearPc, seen, writer>>
    /\ Config

\* __getitem__: self.move_to_end(key); return value.  move_to_end raises
\* KeyError for a key that is gone, which get() turns into the default.
GetMove(t) ==
    /\ pc[t] = "g_move"
    /\ IF HasKey(caches[loc[t].cid], loc[t].key)
       THEN /\ caches' = [caches EXCEPT ![loc[t].cid] = MoveToEnd(@, loc[t].key)]
            /\ Return(t, Outcome("value", loc[t].val))
       ELSE /\ caches' = caches
            /\ Return(t, Outcome("default", Default))
    /\ UNCHANGED <<now, last, loc, DATE, clearPc, seen, writer>>
    /\ Config

\* Thread w is inside a __setitem__ of key k of cache id.
InSetOf(w, id, k) ==
    /\ pc[w] # "idle"
    /\ loc[w].op = "set"
    /\ loc[w].cid = id
    /\ loc[w].key = k

\* __setitem__: super().__setitem__(key, (value, time.time()))
SetWrite(t, id, k, v) ==
    /\ pc[t] = "idle"
    /\ caches' = [caches EXCEPT ![id] = RawSet(@, k, v, now)]
    /\ loc' = [u \in Threads |->
                IF u = t
                THEN [Locals("set", id, k, v, now) EXCEPT
                        !.ov = \E w \in Threads : InSetOf(w, id, k)]
                ELSE IF InSetOf(u, id, k) THEN [loc[u] EXCEPT !.ov = TRUE]
                ELSE loc[u]]
    /\ writer' = t
    /\ Goto(t, "p_size")
    /\ UNCHANGED <<now, last, DATE, clearPc, seen>>
    /\ Config

\* purge: if self.maxsize: overflowing = max(0, len(self) - self.maxsize)
PurgeSize(t) ==
    /\ pc[t] = "p_size"
    /\ LET n == IF maxsize # 0 THEN Overflowing(caches[loc[t].cid]) ELSE 0
       IN  /\ loc' = [loc EXCEPT ![t].n = n]
           /\ Goto(t, IF n > 0 THEN "p_pop" ELSE "p_age")
    /\ UNCHANGED <<caches, now, last, DATE, clearPc, seen, writer>>
    /\ Config

\* purge: one iteration of  for _ in range(overflowing): self.popitem(last=False)
\* popitem raises KeyError on an empty dictionary.
PurgePop(t) ==
    /\ pc[t] = "p_pop"
    /\ IF caches[loc[t].cid] = <<>>
       THEN /\ caches' = caches
            /\ loc' = loc
            /\ Return(t, Outcome("KeyError", Default))
       ELSE /\ caches' = [caches EXCEPT ![loc[t].cid] = PopFront(@)]
            /\ loc' = [loc EXCEPT ![t].n = @ - 1]
            /\ Goto(t, IF loc[t].n - 1 > 0 THEN "p_pop" ELSE "p_age")
    /\ UNCHANGED <<now, last, DATE, clearPc, seen, writer>>
    /\ Config

\* purge: if self.maxduration: limit = time.time() - self.maxduration
PurgeAge(t) ==
    /\ pc[t] = "p_age"
    /\ IF maxduration # 0
       THEN /\ loc' = [loc EXCEPT ![t].limit = now - maxduration]
            /\ Goto(t, "p_while")
       ELSE /\ loc' = loc
            /\ Return(t, Outcome("none", Default))
    /\ UNCHANGED <<caches, now, last, DATE, clearPc, seen, writer>>
    /\ Config

\* purge: while self:
PurgeWhile(t) ==
    /\ pc[t] = "p_while"
    /\ IF caches[loc[t].cid] = <<>>
       THEN Return(t, Outcome("none", Default))
       ELSE Goto(t, "p_peek")
    /\ UNCHANGED <<caches, now, last, loc, DATE, clearPc, seen, writer>>
    /\ Config

\* purge: _, lru = next(iter(super().values())); if lru > limit: break
\* next() raises StopIteration on an empty dictionary.
PurgePeek(t) ==
    /\ pc[t] = "p_peek"
    /\ IF caches[loc[t].cid] = <<>>
       THEN Return(t, Outcome("StopIteration", Default))
       ELSE IF WithinLimit(Head(caches[loc[t].cid]), loc[t].limit)
            THEN Return(t, Outcome("none", Default))
            ELSE Goto(t, "p_agepop")
    /\ UNCHANGED <<caches, now, last, loc, DATE, clearPc, seen, writer>>
    /\ Config

\* purge: self.popitem(last=False) of the age loop
PurgeAgePop(t) ==
    /\ pc[t] = "p_agepop"
    /\ IF caches[loc[t].cid] = <<>>
       THEN /\ caches' = caches
            /\ Return(t, Outcome("KeyError", Default))
       ELSE /\ caches' = [caches EXCEPT ![loc[t].cid] = PopFront(@)]
            /\ Goto(t, "p_while")
    /\ UNCHANGED <<now, last, loc, DATE, clearPc, seen, writer>>
    /\ Config

\* One step of a worker thread inside a call it has begun.
Continue(t) ==
    \/ GetWrite(t)
    \/ GetMove(t)
    \/ PurgeSize(t)
    \/ PurgePop(t)
    \/ PurgeAge(t)
    \/ PurgeWhile(t)
    \/ PurgePeek(t)
    \/ PurgeAgePop(t)

NextConc ==
    \/ TickConc
    \/ \E t \in Threads, id \in ConcCaches, k \in ConcKeys : GetRead(t, id, k)
    \/ \E t \in Threads, id \in ConcCaches, k \in ConcKeys, v \in Vals : SetWrite(t, id, k, v)
    \/ \E t \in Threads : Continue(t)

\* Worker threads calling get and set on one cache.
SpecConc == InitConc /\ [][NextConc]_vars

----------------------------------------------------------------------------
(* The two caches of SharedState, used by one caller.                        *)

BothVals == {1}

StorageShared(id) == "date"

\* date_cache and availability_cache are two LRUDict objects: each name has
\* its own storage.
StorageOf(id) == id

OtherCache(id) == IF id = "date" THEN "avail" ELSE "date"

\* The call just made on cache id, and what the other cache held before it.
CallOn(o, id, k) ==
    [op |-> o, cid |-> id, key |-> k, other |-> caches[OtherCache(id)],
     before |-> caches[id]]

\* shared_state.<id>[key] = value
SetIn(id, k, v) ==
    /\ caches' = [caches EXCEPT ![StorageOf(id)] = SetItem(@, k, v, now, now)]
    /\ last' = CallOn("set", id, k)
    /\ UNCHANGED now
    /\ Frame

\* shared_state.<id>.get(key)
GetIn(id, k) ==
    /\ caches' = [caches EXCEPT ![StorageOf(id)] =
                    GetDefault(@, k, Default, now).cache]
    /\ last' = CallOn("get", id, k)
    /\ UNCHANGED now
    /\ Frame

NextBoth ==
    \/ TickConc
    \/ \E id \in CacheIds, k \in ConcKeys, v \in BothVals : SetIn(id, k, v)
    \/ \E id \in CacheIds, k \in ConcKeys : GetIn(id, k)

SpecBoth == InitConc /\ [][NextBoth]_vars

----------------------------------------------------------------------------
(* The date-change callback of __main__.py, run by the UI while a worker     *)
(* thread serves a request.  Its three statements are separate steps: no     *)
(* lock is held across them.  A mapping is stored as the ordinal of the      *)
(* reference date it was resolved under.                                     *)

ClearThreads == {"t1"}
MaxDate == 2

\* on_date_change: Handler.DATE = new_date (the callback is also invoked with
\* the date unchanged)
DateAssign ==
    /\ clearPc = "idle"
    /\ \E d \in {DATE, DATE + 1} :
        /\ d <= MaxDate
        /\ DATE' = d
    /\ clearPc' = "clear_date"
    /\ UNCHANGED <<caches, now, last, pc, loc, seen, out, writer>>
    /\ Config

\* on_date_change: shared_state.date_cache.clear()
ClearDateCache ==
    /\ clearPc = "clear_date"
    /\ caches' = [caches EXCEPT !["date"] = <<>>]
    /\ clearPc' = "clear_avail"
    /\ UNCHANGED <<now, last, pc, loc, DATE, seen, out, writer>>
    /\ Config

\* on_date_change: shared_state.availability_cache.clear()
ClearAvailCache ==
    /\ clearPc = "clear_avail"
    /\ caches' = [caches EXCEPT !["avail"] = <<>>]
    /\ clearPc' = "idle"
    /\ UNCHANGED <<now, last, pc, loc, DATE, seen, out, writer>>
    /\ Config

NextClear ==
    \/ TickConc
    \/ DateAssign
    \/ ClearDateCache
    \/ ClearAvailCache
    \/ \E t \in ClearThreads, id \in CacheIds, k \in ConcKeys : GetRead(t, id, k)
    \/ \E t \in ClearThreads, id \in CacheIds, k \in ConcKeys : SetWrite(t, id, k, DATE)
    \/ \E t \in ClearThreads : Continue(t)

\* A worker thread using both caches while the UI changes the date.
SpecClear == InitConc /\ [][NextClear]_vars

----------------------------------------------------------------------------
(* The connection pool SharedState builds: urllib3.PoolManager(maxsize=64,   *)
(* block=True, num_pools=10, timeout=Timeout(connect=10.0, read=60.0),       *)
(* retries=False).  Requests are counted, not named: per host, how many      *)
(* hold a connection and how many wait for one.                              *)

PoolMaxsize == 64
PoolBlockOff == FALSE
PoolBlock == TRUE
NumPoolsPlusOne == 10 + 1
NumPools == 10
ConnectTimeout == 10
PoolRetriesOn == TRUE
PoolRetries == FALSE
NumRequests == 65
MaxRetries == 1
TimedHosts == {1}

SharedUnchanged ==
    UNCHANGED <<caches, now, maxsize, maxduration, last, pc, loc, DATE, clearPc,
                seen, out, writer, ui, inp>>

CacheVarsUnchanged == SharedUnchanged /\ UNCHANGED srv

\* The requests the pool knows of: those holding a connection, those waiting
\* for one, and those refused one that have not dealt with it yet.
Outstanding ==
    LET RECURSIVE Sum(_)
        Sum(n) == IF n = 0 THEN 0
                  ELSE pool.leased[n] + pool.blocked[n] + pool.failed[n]
                       + Sum(n - 1)
    IN  Sum(MaxHosts)

InOrder(order, h) == \E i \in 1..Len(order) : order[i] = h

\* The host sub-pools after a request for host h: h becomes the most recently
\* used; a new host beyond num_pools evicts the least recently used sub-pool.
OrderAfterUse(order, h) ==
    IF InOrder(order, h)
    THEN Append(SelectSeq(order, LAMBDA x : x # h), h)
    ELSE IF Len(order) >= NumPools
         THEN Append(Tail(order), h)
         ELSE Append(order, h)

\* The sub-pool this request evicts (0: none).
Evicts(order, h) ==
    IF ~InOrder(order, h) /\ Len(order) >= NumPools THEN Head(order) ELSE 0

\* The pool once the sub-pool of host e (and its connections) is dropped.
Dropped(p, e) ==
    IF e = 0 THEN p
    ELSE [p EXCEPT !.leased[e] = 0, !.blocked[e] = 0, !.waits[e] = <<>>,
                   !.released[e] = FALSE, !.evicted = e]

Wait(age, tries) == [age |-> age, tries |-> tries]

\* The pool after a request asked for a connection to host h: it gets one
\* while fewer than maxsize are leased; beyond that a blocking pool makes it
\* wait, and a non-blocking pool opens one more connection.
AfterAcquire(p, h) ==
    LET q == [Dropped(p, Evicts(p.order, h)) EXCEPT
                !.order = OrderAfterUse(p.order, h)]
    IN  IF q.leased[h] < PoolMaxsize \/ ~PoolBlock
        THEN [q EXCEPT !.leased[h] = @ + 1]
        ELSE [q EXCEPT !.blocked[h] = @ + 1,
                       !.waits[h] = Append(@, Wait(0, 0))]

Acquire(h) ==
    /\ Outstanding < NumRequests
    /\ pool' = AfterAcquire(pool, h)
    /\ CacheVarsUnchanged

\* A request returns its connection to the sub-pool of host h.
AfterRelease(p, h) == [p EXCEPT !.leased[h] = @ - 1, !.released[h] = TRUE]

Release(h) ==
    /\ pool.leased[h] > 0
    /\ pool' = AfterRelease(pool, h)
    /\ CacheVarsUnchanged

Without(w, i) == SubSeq(w, 1, i - 1) \o SubSeq(w, i + 1, Len(w))

\* The pool once the i-th waiting request of host h has taken a connection.
AfterUnblock(p, h, i) ==
    [p EXCEPT !.blocked[h] = @ - 1, !.leased[h] = @ + 1,
              !.waits[h] = Without(@, i)]

\* A waiting request takes a connection that has been returned.
Unblock(h) ==
    /\ pool.blocked[h] > 0
    /\ pool.leased[h] < PoolMaxsize
    /\ \E i \in 1..Len(pool.waits[h]) : pool' = AfterUnblock(pool, h, i)
    /\ CacheVarsUnchanged

\* The time at which the current attempt of a waiting acquisition gives up.
Deadline(w) == (w.tries + 1) * ConnectTimeout

\* One second passes for every waiting acquisition; a wait that has reached
\* its deadline times out first.
PoolTick ==
    /\ \E h \in AllHosts : pool.waits[h] # <<>>
    /\ \A h \in AllHosts : \A i \in 1..Len(pool.waits[h]) :
         pool.waits[h][i].age < Deadline(pool.waits[h][i])
    /\ pool' = [pool EXCEPT !.waits =
                  [h \in AllHosts |->
                     [i \in 1..Len(pool.waits[h]) |->
                        Wait(pool.waits[h][i].age + 1, pool.waits[h][i].tries)]]]
    /\ CacheVarsUnchanged

\* A waiting acquisition reaches its deadline: with retries disabled the
\* timeout failure goes to the caller, once; with retries the pool layer
\* would start another attempt.
PoolTimeout(h) ==
    /\ \E i \in 1..Len(pool.waits[h]) :
         /\ pool.waits[h][i].age >= Deadline(pool.waits[h][i])
         /\ IF PoolRetries /\ pool.waits[h][i].tries < MaxRetries
            THEN pool' = [pool EXCEPT !.waits[h][i].tries = @ + 1]
            ELSE pool' = [pool EXCEPT !.blocked[h] = @ - 1,
                                      !.waits[h] = Without(@, i),
                                      !.failed[h] = @ + 1]
    /\ CacheVarsUnchanged

\* The caller (the request handler) deals with the failure it was given.
FailureHandled(h) ==
    /\ pool.failed[h] > 0
    /\ pool' = [pool EXCEPT !.failed[h] = @ - 1]
    /\ CacheVarsUnchanged

InitPool ==
    /\ caches = [id \in CacheIds |-> <<>>]
    /\ now = 0
    /\ maxsize = MaxSizeCfg
    /\ maxduration = Duration
    /\ last = NoCall
    /\ IdleThreads

NextPool ==
    \/ \E h \in Hosts : Acquire(h)
    \/ \E h \in Hosts : Release(h)
    \/ \E h \in Hosts : Unblock(h)

\* Requests acquiring and releasing pooled connections.
SpecPool == InitPool /\ [][NextPool]_vars

NextPoolTimed ==
    \/ \E h \in TimedHosts : Acquire(h)
    \/ \E h \in TimedHosts : Release(h)
    \/ \E h \in TimedHosts : Unblock(h)
    \/ PoolTick
    \/ \E h \in TimedHosts : PoolTimeout(h)
    \/ \E h \in TimedHosts : FailureHandled(h)

\* The same requests, with the time blocked acquisitions spend waiting.
SpecPoolTimed == InitPool /\ [][NextPoolTimed]_vars

MaxHostRequests == 13

\* A request for a connection to host h: a host never requested before, or
\* one of the hosts that are requested again and again.
Request(h) ==
    /\ pool.made < MaxHostRequests
    /\ h = pool.fresh \/ (h \in Hosts /\ h < pool.fresh)
    /\ pool' = [AfterAcquire(pool, h) EXCEPT
                  !.made = @ + 1,
                  !.fresh = IF h = pool.fresh THEN h + 1 ELSE pool.fresh]
    /\ CacheVarsUnchanged

NextHosts ==
    \/ \E h \in AllHosts : Request(h)
    \/ \E h \in Hosts : Release(h)

\* Requests to many destination hosts.
SpecHosts == InitPool /\ [][NextHosts]_vars

----------------------------------------------------------------------------
(* The proxy server: main() constructs ThreadedProxyServer, runs its          *)
(* serve_forever in a daemon thread and calls server.shutdown() when the      *)
(* user interface ends or the process is interrupted.  The accept loop hands  *)
(* each connection to a worker thread; a worker asks the pool for an          *)
(* outbound connection, uses it and returns it.  Workers are counted, not     *)
(* named.                                                                     *)

ThreadingOff == FALSE

ConstructIgnoringFailure ==
    /\ srv.main = "start"
    /\ \E ok \in BOOLEAN :
         srv' = [srv EXCEPT !.main = "bound",
                            !.bind = IF ok THEN "ok" ELSE "failed"]
    /\ UNCHANGED pool
    /\ SharedUnchanged

Threading == TRUE
DaemonThreadsOff == FALSE
DaemonThreads == TRUE
ShutdownSkipped == FALSE
ShutdownOnExit == TRUE
ServerHosts == {1}
MaxConns == 66

\* The worker threads alive: those spawned that have not reached the pool and
\* those holding, awaiting or having been refused an outbound connection.
Workers == srv.fresh + Outstanding

\* ThreadedProxyServer(('', listen_port), Handler): the port is bound, or the
\* constructor raises OSError and main() returns 1.
Construct ==
    /\ srv.main = "start"
    /\ \E ok \in BOOLEAN :
         srv' = IF ok
                THEN [srv EXCEPT !.main = "bound", !.bind = "ok"]
                ELSE [srv EXCEPT !.main = "returned", !.bind = "failed",
                                 !.err = TRUE, !.code = 1]
    /\ UNCHANGED pool
    /\ SharedUnchanged

\* proxy_thread.start(): serve_forever runs in its own daemon thread.
StartServing ==
    /\ srv.main = "bound"
    /\ srv' = [srv EXCEPT !.main = "serving", !.state = "listening"]
    /\ UNCHANGED pool
    /\ SharedUnchanged

\* The accept loop takes one inbound connection and hands it to a new worker
\* thread; without the threading mix-in it would serve the connection itself
\* before accepting again.
Accept ==
    /\ srv.state = "listening"
    /\ Workers < MaxConns
    /\ Threading \/ Workers = 0
    /\ srv' = [srv EXCEPT !.fresh = @ + 1]
    /\ UNCHANGED pool
    /\ SharedUnchanged

WorkersRun == srv.main # "exited"

\* A worker asks the pool for an outbound connection to host h.
WorkerAcquire(h) ==
    /\ WorkersRun
    /\ srv.fresh > 0
    /\ srv' = [srv EXCEPT !.fresh = @ - 1]
    /\ pool' = AfterAcquire(pool, h)
    /\ SharedUnchanged

\* A worker blocked at the pool gets a connection that was returned.
WorkerUnblock(h) ==
    /\ WorkersRun
    /\ pool.blocked[h] > 0
    /\ pool.leased[h] < PoolMaxsize
    /\ \E i \in 1..Len(pool.waits[h]) : pool' = AfterUnblock(pool, h, i)
    /\ UNCHANGED srv
    /\ SharedUnchanged

\* A worker returns its connection, answers its client and ends.
WorkerDone(h) ==
    /\ WorkersRun
    /\ pool.leased[h] > 0
    /\ pool' = AfterRelease(pool, h)
    /\ UNCHANGED srv
    /\ SharedUnchanged

\* The user interface ends or KeyboardInterrupt reaches main(): it calls
\* server.shutdown(), which asks the accept loop to stop and waits for it.
RequestShutdown ==
    /\ srv.main = "serving"
    /\ srv.mode = "headless"
    /\ srv' = IF ShutdownOnExit
              THEN [srv EXCEPT !.main = "in_shutdown", !.state = "shutting_down",
                               !.shut = TRUE]
              ELSE [srv EXCEPT !.main = "returned"]
    /\ UNCHANGED pool
    /\ SharedUnchanged

\* serve_forever sees the request and leaves its loop.
LoopExit ==
    /\ srv.state = "shutting_down"
    /\ srv' = [srv EXCEPT !.state = "stopped"]
    /\ UNCHANGED pool
    /\ SharedUnchanged

DisplayLeftOn(d) == d

\* if 'display' in locals(): display.clear()
DisplayAfterExit(d) == IF d = "created" THEN "cleared" ELSE d

\* server.shutdown() returns once the loop has ended; the display is cleared
\* if there is one; main() returns 0, or 1 when it got here through an error
\* of the user interface.
ShutdownReturns ==
    /\ srv.main = "in_shutdown"
    /\ srv.state = "stopped"
    /\ srv' = [srv EXCEPT !.main = "returned",
                          !.code = IF srv.exit = "error" THEN 1 ELSE 0,
                          !.display = DisplayAfterExit(@)]
    /\ UNCHANGED pool
    /\ SharedUnchanged

\* sys.exit(main()): the interpreter ends without waiting for daemon threads;
\* it would wait for worker threads that are not daemons.  The serving thread
\* and the workers end with the process.
ProcessExit ==
    /\ srv.main = "returned"
    /\ DaemonThreads \/ Workers = 0
    /\ srv' = [srv EXCEPT !.main = "exited", !.state = "stopped"]
    /\ UNCHANGED pool
    /\ SharedUnchanged

NextServer ==
    \/ Construct
    \/ StartServing
    \/ Accept
    \/ \E h \in ServerHosts : WorkerAcquire(h)
    \/ \E h \in ServerHosts : WorkerUnblock(h)
    \/ \E h \in ServerHosts : WorkerDone(h)
    \/ RequestShutdown
    \/ LoopExit
    \/ ShutdownReturns
    \/ ProcessExit

\* The server from construction to process exit.  The accept loop, once asked
\* to stop, and main() keep running; nothing makes a worker finish.
SpecServer ==
    /\ InitPool
    /\ [][NextServer]_vars
    /\ WF_vars(LoopExit)
    /\ WF_vars(ShutdownReturns)
    /\ WF_vars(ProcessExit)

----------------------------------------------------------------------------
(* Startup: main() builds SharedState, loads whitelist.txt, constructs the   *)
(* server and serves until it is told to stop.  The whitelist file is a      *)
(* sequence of characters; "nl" is the newline.                              *)

Chars == {"x", "y", "nl"}
MaxFileLen == 4

RECURSIVE SeqsUpTo(_)
SeqsUpTo(n) ==
    IF n = 0 THEN {<<>>}
    ELSE LET shorter == SeqsUpTo(n - 1)
         IN  shorter \cup {Append(q, ch) : q \in shorter, ch \in Chars}

Files ==
    {[exists |-> e, fails |-> f, content |-> q] :
        e \in BOOLEAN, f \in BOOLEAN, q \in SeqsUpTo(MaxFileLen)}

\* str.splitlines(): the pieces between newlines; a newline at the very end
\* opens no further line.
RECURSIVE SplitFrom(_, _, _)
SplitFrom(content, i, line) ==
    IF i > Len(content)
    THEN IF line = <<>> THEN <<>> ELSE <<line>>
    ELSE IF content[i] = "nl"
         THEN <<line>> \o SplitFrom(content, i + 1, <<>>)
         ELSE SplitFrom(content, i + 1, Append(line, content[i]))

SplitLines(content) == SplitFrom(content, 1, <<>>)

Loaded(ok, list) == [ok |-> ok, list |-> list]

LoadWhitelistRaising(f) ==
    IF f.exists
    THEN IF f.fails THEN Loaded(FALSE, <<>>)
         ELSE Loaded(TRUE, SplitLines(f.content))
    ELSE Loaded(TRUE, <<>>)

\* SharedState.load_whitelist: the lines of the file when it exists and can
\* be read, the empty list when it does not exist or reading raises.
LoadWhitelist(f) ==
    IF f.exists
    THEN IF f.fails THEN Loaded(TRUE, <<>>)
         ELSE Loaded(TRUE, SplitLines(f.content))
    ELSE Loaded(TRUE, <<>>)

\* shared_state = SharedState(); shared_state.load_whitelist()
LoadState ==
    /\ srv.main = "boot"
    /\ \E f \in Files :
         LET r == LoadWhitelist(f)
         IN  srv' = [srv EXCEPT !.file = f,
                                !.whitelist = r.list,
                                !.main = IF r.ok THEN "loaded" ELSE "aborted"]
    /\ UNCHANGED pool
    /\ SharedUnchanged

ConfigureNothing ==
    /\ srv.main = "loaded"
    /\ srv' = [srv EXCEPT !.main = "start"]
    /\ UNCHANGED pool
    /\ SharedUnchanged

\* The handler's module globals are set from the settings, then
\* Handler.DATE = settings.proxy.date and
\* handler_module.shared_state = shared_state.
Configure ==
    /\ srv.main = "loaded"
    /\ srv' = [srv EXCEPT !.main = "start", !.dated = TRUE, !.shared = TRUE]
    /\ UNCHANGED pool
    /\ SharedUnchanged

InitStartup ==
    /\ caches = [id \in CacheIds |-> <<>>]
    /\ now = 0
    /\ maxsize = MaxSizeCfg
    /\ maxduration = Duration
    /\ last = NoCall
    /\ pool = EmptyPool
    /\ srv = BootingServer("headless")
    /\ ui = DefaultUI
    /\ inp = IdleInput
    /\ pc = [t \in Threads |-> "idle"]
    /\ loc = [t \in Threads |-> Locals("none", "date", "a", Default, 0)]
    /\ seen = [t \in Threads |-> "none"]
    /\ out = [t \in Threads |-> Outcome("none", Default)]
    /\ writer = "none"
    /\ DATE = 1
    /\ clearPc = "idle"

NextStartup ==
    \/ LoadState
    \/ Configure
    \/ Construct
    \/ StartServing
    \/ RequestShutdown
    \/ LoopExit
    \/ ShutdownReturns
    \/ ProcessExit

\* main() from the creation of SharedState to the exit of the process, with
\* no client connecting.
SpecStartup == InitStartup /\ [][NextStartup]_vars

----------------------------------------------------------------------------
(* main() from its first statement to its return, in headless and in UI      *)
(* mode.  In UI mode everything after the serving thread was started runs    *)
(* inside  try: ... except KeyboardInterrupt ... except Exception ...        *)
(* finally: server.shutdown(); display.clear().                              *)

Modes == {"headless", "ui"}
MaxWorkers == 2
Exits == {"error", "interrupt"}

\* An exception leaves the try block: the except clauses log, and control
\* reaches the finally clause.
Leave(e) ==
    [srv EXCEPT !.main = "finally", !.exit = e, !.err = (@ \/ e = "error")]

\* display = create_display(settings.hardware.display_type)
CreateDisplay ==
    /\ srv.main = "serving"
    /\ srv.mode = "ui"
    /\ \/ srv' = [srv EXCEPT !.main = "ui_setup", !.display = "created"]
       \/ \E e \in Exits : srv' = Leave(e)
    /\ UNCHANGED pool
    /\ SharedUnchanged

\* The input device, the DateSelector and the UIController are created, the
\* network is awaited, the local address is read.
SetUpUI ==
    /\ srv.main = "ui_setup"
    /\ \/ srv' = [srv EXCEPT !.main = "ui_running"]
       \/ \E e \in Exits : srv' = Leave(e)
    /\ UNCHANGED pool
    /\ SharedUnchanged

\* ui.start(...) blocks until the UI ends: it returns (also after a
\* KeyboardInterrupt inside its loop, which it catches) or raises.
RunUI ==
    /\ srv.main = "ui_running"
    /\ \E e \in Exits \cup {"return"} : srv' = Leave(e)
    /\ UNCHANGED pool
    /\ SharedUnchanged

\* finally: server.shutdown()
Finally ==
    /\ srv.main = "finally"
    /\ srv' = IF ShutdownOnExit
              THEN [srv EXCEPT !.main = "in_shutdown", !.state = "shutting_down",
                               !.shut = TRUE]
              ELSE [srv EXCEPT !.main = "returned",
                               !.code = IF srv.exit = "error" THEN 1 ELSE 0,
                               !.display = DisplayAfterExit(@)]
    /\ UNCHANGED pool
    /\ SharedUnchanged

\* The accept loop, followed for its first connections only.
AcceptFew ==
    /\ srv.fresh < MaxWorkers
    /\ Accept

InitMain ==
    /\ caches = [id \in CacheIds |-> <<>>]
    /\ now = 0
    /\ maxsize = MaxSizeCfg
    /\ maxduration = Duration
    /\ last = NoCall
    /\ pool = EmptyPool
    /\ \E mode \in Modes : srv = BootingServer(mode)
    /\ ui = DefaultUI
    /\ inp = IdleInput
    /\ pc = [t \in Threads |-> "idle"]
    /\ loc = [t \in Threads |-> Locals("none", "date", "a", Default, 0)]
    /\ seen = [t \in Threads |-> "none"]
    /\ out = [t \in Threads |-> Outcome("none", Default)]
    /\ writer = "none"
    /\ DATE = 1
    /\ clearPc = "idle"

NextMain ==
    \/ LoadState
    \/ Configure
    \/ Construct
    \/ StartServing
    \/ AcceptFew
    \/ RequestShutdown
    \/ CreateDisplay
    \/ SetUpUI
    \/ RunUI
    \/ Finally
    \/ LoopExit
    \/ ShutdownReturns
    \/ ProcessExit

\* The main thread and the serving thread keep running.
SpecMain ==
    /\ InitMain
    /\ [][NextMain]_vars
    /\ WF_vars(Finally)
    /\ WF_vars(LoopExit)
    /\ WF_vars(ShutdownReturns)

----------------------------------------------------------------------------
(* The date selector: a (year, month, day) triple and the selected segment.  *)
(* increment and decrement change the selected segment by one and constrain  *)
(* the new value of that segment; Date.today() is the same day throughout.   *)

MIN_YEAR == 1996
MIN_MONTH == 5
MIN_DAY == 10
TodayYear == 1998
TodayMonth == 3
TodayDay == 15
Segments == {"Y", "M", "D"}

Max(a, b) == IF a >= b THEN a ELSE b

Min(a, b) == IF a <= b THEN a ELSE b

IsLeap(y) == y % 4 = 0 /\ (y % 100 # 0 \/ y % 400 = 0)

\* calendar.monthrange(year, month)[1]
DaysInMonth(y, m) ==
    IF m = 2 THEN (IF IsLeap(y) THEN 29 ELSE 28)
    ELSE IF m \in {4, 6, 9, 11} THEN 30 ELSE 31

\* _constrain_year
ConstrainYear(year) == Max(MIN_YEAR, Min(year, TodayYear))

\* _constrain_month, for the current selection u
ConstrainMonth(u, month) ==
    LET min_month == IF u.year = MIN_YEAR THEN MIN_MONTH ELSE 1
        max_month == IF u.year = TodayYear THEN TodayMonth ELSE 12
    IN  Max(min_month, Min(month, max_month))

\* _constrain_day, for the current selection u
ConstrainDay(u, day) ==
    LET max_day_in_month == DaysInMonth(u.year, u.month)
        min_day == IF u.year = MIN_YEAR /\ u.month = MIN_MONTH
                   THEN MIN_DAY ELSE 1
        max_day == IF u.year = TodayYear /\ u.month = TodayMonth
                   THEN Min(max_day_in_month, TodayDay)
                   ELSE max_day_in_month
    IN  Max(min_day, Min(day, max_day))

\* _change(delta): only the selected segment is assigned.
Change(u, delta) ==
    IF u.seg = "Y" THEN [u EXCEPT !.year = ConstrainYear(u.year + delta)]
    ELSE IF u.seg = "M"
         THEN [u EXCEPT !.month = ConstrainMonth(u, u.month + delta)]
         ELSE [u EXCEPT !.day = ConstrainDay(u, u.day + delta)]

ToggleBack(seg) == IF seg = "Y" THEN "M" ELSE "Y"

\* toggle_segment
ToggleSegment(seg) ==
    IF seg = "Y" THEN "M" ELSE IF seg = "M" THEN "D" ELSE "Y"

\* to_wayback_format, YYYYMMDD read as a number
WaybackFormat(u) == u.year * 10000 + u.month * 100 + u.day

SelectionOf(u) == Selection(u.year, u.month, u.day, u.seg)

\* The operation just made on the selector and the selection it found.
Did(u, o, was) == [u EXCEPT !.op = o, !.before = SelectionOf(was)]

IsDate(y, m, d) == m \in 1..12 /\ d \in 1..DaysInMonth(y, m)

\* Not before the first snapshot, 1996-05-10, and not after today.
InWaybackRange(y, m, d) ==
    /\ y * 10000 + m * 100 + d >= MIN_YEAR * 10000 + MIN_MONTH * 100 + MIN_DAY
    /\ y * 10000 + m * 100 + d <= TodayYear * 10000 + TodayMonth * 100 + TodayDay

OnlyUI ==
    UNCHANGED <<caches, now, maxsize, maxduration, last, pc, loc, DATE, clearPc,
                seen, out, writer, pool, srv, inp>>

\* date_selector.increment()
Increment ==
    /\ ui' = Did(Change(ui, 1), "increment", ui)
    /\ OnlyUI

\* date_selector.decrement()
Decrement ==
    /\ ui' = Did(Change(ui, 0 - 1), "decrement", ui)
    /\ OnlyUI

\* date_selector.toggle_segment()
Toggle ==
    /\ ui' = Did([ui EXCEPT !.seg = ToggleSegment(ui.seg)], "toggle", ui)
    /\ OnlyUI

\* DateSelector(initial_date) for every calendar date of the Wayback range.
InitDate ==
    /\ caches = [id \in CacheIds |-> <<>>]
    /\ now = 0
    /\ maxsize = MaxSizeCfg
    /\ maxduration = Duration
    /\ last = NoCall
    /\ pool = EmptyPool
    /\ srv = StoppedServer
    /\ \E y \in MIN_YEAR..TodayYear, m \in 1..12, d \in 1..31 :
         /\ IsDate(y, m, d)
         /\ InWaybackRange(y, m, d)
         /\ ui = FreshUI(y, m, d)
    /\ inp = IdleInput
    /\ pc = [t \in Threads |-> "idle"]
    /\ loc = [t \in Threads |-> Locals("none", "date", "a", Default, 0)]
    /\ seen = [t \in Threads |-> "none"]
    /\ out = [t \in Threads |-> Outcome("none", Default)]
    /\ writer = "none"
    /\ DATE = 1
    /\ clearPc = "idle"

NextDate ==
    \/ Increment
    \/ Decrement
    \/ Toggle

SpecDate == InitDate /\ [][NextDate]_vars

----------------------------------------------------------------------------
(* The UI controller: a rotation or a button press changes the selector,     *)
(* rewrites the date line of the display and calls on_date_change, which     *)
(* sets Handler.DATE and then clears the two caches; the web interface       *)
(* pushes a date with update_date_from_external.  Workers fill the caches.   *)

ExternalNotifiesOn == TRUE
ExternalNotifies == FALSE
ExternalDates == {<<1997, 6, 29>>, <<1998, 1, 31>>, <<1997, 2, 30>>}

\* display.write(date_selector.get_display_string(), line=1)
Shown(u) == [u EXCEPT !.line = SelectionOf(u)]

UIFrame ==
    UNCHANGED <<now, maxsize, maxduration, last, pc, loc, seen, out, writer,
                pool, srv, inp>>

\* _update_display_date ends in on_date_change(get_wayback_date()), whose
\* first statement assigns Handler.DATE; the clears follow.
Notify(u) ==
    /\ DATE' = WaybackFormat(u)
    /\ clearPc' = "clear_date"
    /\ UNCHANGED caches

\* _handle_delta(delta): increment or decrement, then _update_display_date.
HandleDelta(delta) ==
    /\ clearPc = "idle"
    /\ ui' = Shown(Did(Change(ui, IF delta > 0 THEN 1 ELSE 0 - 1),
                       IF delta > 0 THEN "increment" ELSE "decrement", ui))
    /\ Notify(ui')
    /\ UIFrame

\* _on_press: toggle_segment, then _update_display_date.
Press ==
    /\ clearPc = "idle"
    /\ ui' = Shown(Did([ui EXCEPT !.seg = ToggleSegment(ui.seg)], "toggle", ui))
    /\ Notify(ui')
    /\ UIFrame

\* update_date_from_external(new_date): set_date raises ValueError for a
\* string that is no date and nothing changes; otherwise the selector takes
\* the date and the date line is rewritten.
External(y, m, d) ==
    /\ clearPc = "idle"
    /\ IF IsDate(y, m, d)
       THEN /\ ui' = Shown(Did([ui EXCEPT !.year = y, !.month = m, !.day = d],
                               "external", ui))
            /\ IF ExternalNotifies
               THEN Notify(ui')
               ELSE UNCHANGED <<DATE, clearPc, caches>>
       ELSE /\ ui' = Did(ui, "rejected", ui)
            /\ UNCHANGED <<DATE, clearPc, caches>>
    /\ UIFrame

\* A worker stores an entry in one of the caches.
Fill(id) ==
    /\ caches' = [caches EXCEPT ![id] = SetItem(@, "a", 1, now, now)]
    /\ UNCHANGED <<now, last>>
    /\ Frame

NextUI ==
    \/ \E delta \in {0 - 1, 1} : HandleDelta(delta)
    \/ Press
    \/ \E e \in ExternalDates : External(e[1], e[2], e[3])
    \/ ClearDateCache
    \/ ClearAvailCache
    \/ \E id \in CacheIds : Fill(id)

SpecUI == InitDate /\ [][NextUI]_vars

----------------------------------------------------------------------------
(* The rotary encoder: RPi.GPIO calls RotaryEncoder._callback(channel) for   *)
(* an edge on channel A or B; the decoder samples the channel, remembers the *)
(* level and the pin, and reports a rotation to the controller's _on_turn,   *)
(* which puts the delta on the queue.                                        *)

MaxEdges == 5
Channels == {"A", "B"}
Levels == {0, 1}

DebounceOff(channel, lastGpio) == FALSE

\* if channel == self.lastGpio: return
Debounced(channel, lastGpio) == channel = lastGpio

\* The levels after  if channel == self.gpioA: self.levA = level
\*                   else: self.levB = level
Sampled(i, channel, level) ==
    IF channel = "A" THEN [i EXCEPT !.levA = level] ELSE [i EXCEPT !.levB = level]

\* The delta _callback reports for an edge, 0 for none.
Fired(i, channel, level) ==
    IF Debounced(channel, i.lastGpio) THEN 0
    ELSE IF channel = "A" /\ level = 1
         THEN (IF Sampled(i, channel, level).levB = 1 THEN 1 ELSE 0)
    ELSE IF channel = "B" /\ level = 1
         THEN (IF Sampled(i, channel, level).levA = 1 THEN 0 - 1 ELSE 0)
    ELSE 0

\* RotaryEncoder._callback(channel) with GPIO.input(channel) = level, up to
\* the call of self.callback.
Callback(i, channel, level) ==
    [Sampled(i, channel, level) EXCEPT
        !.lastGpio = channel,
        !.edge = [channel |-> channel, level |-> level, prev |-> i.lastGpio,
                  fired |-> Fired(i, channel, level)]]

\* A queued rotation: its delta, its arrival number, and the segment that was
\* selected when it arrived.
Turned(delta, n, seg) == [delta |-> delta, n |-> n, seg |-> seg]

\* UIController._on_turn(delta): self._queue.put(delta); self._event.set()
OnTurn(i, delta, seg) ==
    [i EXCEPT !.queue = Append(@, Turned(delta, i.put + 1, seg)),
              !.put = @ + 1,
              !.early = IF i.asked THEN @ ELSE @ \cup {i.put + 1}]

OnlyInput ==
    UNCHANGED <<caches, now, maxsize, maxduration, last, pc, loc, DATE, clearPc,
                seen, out, writer, pool, srv, ui>>

\* An edge on a channel: _callback runs and, when it reports, _on_turn.
Edge(channel, level) ==
    /\ inp.events < MaxEdges
    /\ LET i == [Callback(inp, channel, level) EXCEPT !.events = @ + 1]
       IN  inp' = IF i.edge.fired # 0 THEN OnTurn(i, i.edge.fired, ui.seg) ELSE i
    /\ OnlyInput

InitEncoder ==
    /\ caches = [id \in CacheIds |-> <<>>]
    /\ now = 0
    /\ maxsize = MaxSizeCfg
    /\ maxduration = Duration
    /\ last = NoCall
    /\ IdleThreads

NextEncoder ==
    \/ \E level \in Levels : Edge("A", level)
    \/ \E level \in Levels : Edge("B", level)

SpecEncoder == InitEncoder /\ [][NextEncoder]_vars

----------------------------------------------------------------------------
(* The event loop of UIController.start on the main thread, and the input    *)
(* device's thread calling _on_turn and _on_press.  A rotation is queued for *)
(* the loop; a press acts at once, on the input thread.                      *)

MaxInputs == 3
LoopDates == {<<1997, 6, 29>>, <<1996, 5, 10>>}

\* _update_display_date ends in on_date_change(get_wayback_date()), run to
\* its end: Handler.DATE takes the date and both caches are cleared.
NotifyDone(u) ==
    /\ DATE' = WaybackFormat(u)
    /\ caches' = [id \in CacheIds |-> <<>>]
    /\ UNCHANGED clearPc

LoopFrame ==
    UNCHANGED <<now, maxsize, maxduration, last, pc, loc, seen, out, writer,
                pool, srv>>

\* The input device is started by start() and stopped by stop().
Listening == inp.loop # "stopped" /\ inp.events < MaxInputs

\* The input thread reports a rotation: _on_turn(delta).
Turn(delta) ==
    /\ Listening
    /\ inp' = [OnTurn(inp, delta, ui.seg) EXCEPT !.events = @ + 1]
    /\ UNCHANGED <<ui, DATE, caches, clearPc>>
    /\ LoopFrame

\* The input thread reports a press: _on_press().
PressNow ==
    /\ Listening
    /\ ui' = Shown(Did([ui EXCEPT !.seg = ToggleSegment(ui.seg)], "toggle", ui))
    /\ NotifyDone(ui')
    /\ inp' = [inp EXCEPT !.events = @ + 1]
    /\ LoopFrame

\* while not self._shutdown_event.is_set():
LoopTest ==
    /\ inp.loop = "while"
    /\ inp' = [inp EXCEPT !.loop = IF inp.shutdown THEN "finally" ELSE "consume"]
    /\ UNCHANGED <<ui, DATE, caches, clearPc>>
    /\ LoopFrame

\* The delta handled, with the segment it was applied to.
Applied(e, seg) == [n |-> e.n, seg |-> e.seg, on |-> seg]

\* _consume_queue: while not self._queue.empty():
\*                     delta = self._queue.get(); self._handle_delta(delta)
ConsumeQueue ==
    /\ inp.loop = "consume"
    /\ IF inp.queue = <<>>
       THEN /\ inp' = [inp EXCEPT !.loop = "sleep"]
            /\ UNCHANGED <<ui, DATE, caches, clearPc>>
       ELSE LET e == Head(inp.queue)
            IN  /\ inp' = [inp EXCEPT !.queue = Tail(@),
                                      !.applied = Append(@, Applied(e, ui.seg))]
                /\ ui' = Shown(Did(Change(ui, IF e.delta > 0 THEN 1 ELSE 0 - 1),
                                   IF e.delta > 0 THEN "increment" ELSE "decrement",
                                   ui))
                /\ NotifyDone(ui')
    /\ LoopFrame

\* self._event.clear(); the animation; time.sleep(...)
LoopSleep ==
    /\ inp.loop = "sleep"
    /\ inp' = [inp EXCEPT !.loop = "while"]
    /\ UNCHANGED <<ui, DATE, caches, clearPc>>
    /\ LoopFrame

\* KeyboardInterrupt reaches the main thread inside the loop:
\* except KeyboardInterrupt: pass
Interrupt ==
    /\ inp.loop \in {"while", "consume", "sleep"}
    /\ inp' = [inp EXCEPT !.loop = "finally", !.asked = TRUE]
    /\ UNCHANGED <<ui, DATE, caches, clearPc>>
    /\ LoopFrame

\* finally: self.stop(), which sets _shutdown_event, stops the input device
\* and clears the display.
Stop ==
    /\ inp.loop = "finally"
    /\ inp' = [inp EXCEPT !.loop = "stopped", !.shutdown = TRUE,
                          !.display = "cleared"]
    /\ UNCHANGED <<ui, DATE, caches, clearPc>>
    /\ LoopFrame

\* start() has shown the initial date (and called on_date_change with it)
\* and enters the loop.
InitLoop ==
    /\ caches = [id \in CacheIds |-> <<>>]
    /\ now = 0
    /\ maxsize = MaxSizeCfg
    /\ maxduration = Duration
    /\ last = NoCall
    /\ pool = EmptyPool
    /\ srv = StoppedServer
    /\ \E e \in LoopDates : ui = Shown(FreshUI(e[1], e[2], e[3]))
    /\ inp = IdleInput
    /\ pc = [t \in Threads |-> "idle"]
    /\ loc = [t \in Threads |-> Locals("none", "date", "a", Default, 0)]
    /\ seen = [t \in Threads |-> "none"]
    /\ out = [t \in Threads |-> Outcome("none", Default)]
    /\ writer = "none"
    /\ DATE = WaybackFormat(ui)
    /\ clearPc = "idle"

NextLoop ==
    \/ \E delta \in {0 - 1, 1} : Turn(delta)
    \/ PressNow
    \/ LoopTest
    \/ ConsumeQueue
    \/ LoopSleep
    \/ Interrupt
    \/ Stop

\* The main thread keeps running: each step of the loop is taken when it can
\* be.  Input and the interrupt come when they come.
SpecLoop ==
    /\ InitLoop
    /\ [][NextLoop]_vars
    /\ WF_vars(LoopTest)
    /\ WF_vars(ConsumeQueue)
    /\ WF_vars(LoopSleep)
    /\ WF_vars(Stop)

----------------------------------------------------------------------------
(* Claims about a cache used by a single caller (Spec) *)

\* C1: with maxsize = N > 0, after every set call returns the cache holds at
\* most N entries.
C1_SizeBoundAfterSet ==
    (maxsize > 0 /\ last.op = "set") => Len(caches[last.cid]) <= maxsize

\* C1 witness: a set on a full cache of two entries added a third key and
\* returned with two entries.
C1_Witness ==
    /\ last.op = "set"
    /\ maxsize = 2
    /\ Len(last.written) = 3
    /\ Len(caches[last.cid]) = 2

\* C2: with maxduration = T > 0, when a set's eviction pass has finished no
\* entry whose idle age (the time the pass read minus the entry's timestamp)
\* is >= T is left in the cache.
C2_NoExpiredEntryAfterSet ==
    (maxduration > 0 /\ last.op = "set") =>
        \A i \in 1..Len(caches[last.cid]) :
            last.done - caches[last.cid][i].ts < maxduration

\* C3: in every reachable cache state the keys are unique and the order is
\* ascending by last-access timestamp (the front entry is the least recently
\* read or written).
C3_OrderedByLastAccess ==
    \A id \in CacheIds :
        /\ Cardinality(KeysOf(caches[id])) = Len(caches[id])
        /\ \A i, j \in 1..Len(caches[id]) :
              i < j => caches[id][i].ts <= caches[id][j].ts

\* C4: when a set pushes the count above maxsize > 0, the size phase evicts
\* exactly one entry and it is the least recently used one: no other entry has
\* an older last get or set.
C4_SizePhaseEvictsLeastRecentlyUsed ==
    (last.op = "set" /\ maxsize > 0 /\ Len(last.written) > maxsize) =>
        /\ Len(last.written) - Len(last.sized) = 1
        /\ \A i \in 2..Len(last.written) :
              last.written[1].ts <= last.written[i].ts

----------------------------------------------------------------------------
(* Claims about a cache shared by worker threads (SpecConc) *)

AllReturned == \A t \in Threads : pc[t] = "idle"

\* C5: the cache operations are mutually exclusive per cache instance: two
\* threads are never inside an operation on the same cache at the same time.
C5_MutualExclusion ==
    \A t, u \in Threads :
        (t # u /\ pc[t] # "idle" /\ pc[u] # "idle") => loc[t].cid # loc[u].cid

\* C6: with maxsize > 0, once all the interleaved get and set calls have
\* returned, the entry count is <= maxsize and every key appears exactly once.
C6_SettledCountWithinMaxsize ==
    (AllReturned /\ maxsize > 0) =>
        \A id \in ConcCaches :
            /\ Len(caches[id]) <= maxsize
            /\ Cardinality(KeysOf(caches[id])) = Len(caches[id])

\* The last calls of all threads were overlapping sets of one key of one cache.
ConcurrentSetsOf(id, k) ==
    /\ \A t \in Threads : loc[t].op = "set" /\ loc[t].cid = id /\ loc[t].key = k
    /\ \E t \in Threads : loc[t].ov

\* The entry written last has not outlived maxduration.
LastWriteFresh ==
    maxduration = 0 \/ now - loc[writer].wt < maxduration

\* C7: when the threads concurrently set the same key (maxsize >= 1), after
\* all the calls return the key is present and holds the value written last.
C7_LastWriterWins ==
    \A id \in ConcCaches, k \in ConcKeys :
        (AllReturned /\ maxsize >= 1 /\ ConcurrentSetsOf(id, k) /\ LastWriteFresh) =>
            /\ HasKey(caches[id], k)
            /\ Lookup(caches[id], k).val = loc[writer].val

----------------------------------------------------------------------------
(* Claims about the date-change callback (SpecClear) *)

\* C8: no reader observes a half-cleared state: while the date-change callback
\* is under way (new date in effect or one cache emptied), no get returns an
\* entry stored before the change.
C8_NoHalfClearedObservation ==
    \A t \in Threads : seen[t] # "half"

\* C9: once the date-change callback has finished, neither cache contains a
\* mapping stored under an earlier reference date.
C9_NoStaleMappingAfterClear ==
    clearPc = "idle" =>
        \A id \in CacheIds : \A i \in 1..Len(caches[id]) :
            caches[id][i].val >= DATE

----------------------------------------------------------------------------
(* Claims about the connection pool (SpecPool) *)

----------------------------------------------------------------------------
(* Claims about blocked acquisitions and host sub-pools                      *)

C12_AtMostTenHostPoolsEvictingLeastRecentlyUsed ==
    /\ [](/\ Len(pool.order) <= 10
          /\ \A h \in AllHosts : pool.leased[h] > 0 => InOrder(pool.order, h))
    /\ [][\A h \in AllHosts :
            (/\ pool'.made = pool.made + 1
             /\ pool'.leased[h] = pool.leased[h] + 1
             /\ ~InOrder(pool.order, h)
             /\ Len(pool.order) = 10)
            => /\ pool'.order = Append(Tail(pool.order), h)
               /\ pool'.evicted = Head(pool.order)
               /\ pool'.leased[Head(pool.order)] = 0
               /\ pool'.leased[h] = 1
               /\ \A g \in AllHosts \ {h, Head(pool.order)} :
                    pool'.leased[g] = pool.leased[g]]_vars

\* Ten hosts had a sub-pool and hosts 1 and 2 were used again, so that host 3
\* was the least recently used when an eleventh host was requested: host 3
\* lost its sub-pool and the connection it had out.
C12_Witness ==
    /\ Len(pool.order) = 10
    /\ pool.evicted = 3
    /\ pool.order[8] = 1
    /\ pool.order[9] = 2
    /\ pool.order[10] = 11
    /\ pool.leased[3] = 0
    /\ pool.leased[1] = 2


----------------------------------------------------------------------------
(* Claims about the threaded server                                          *)

\* C13: while the server is listening the accept loop can take the next
\* inbound connection, however many workers are running or blocked at the
\* outbound pool (up to the connections the model offers); taking one spawns
\* exactly one new worker, touches no connection of the pool and leaves the
\* server listening.
C13_AcceptNeverWaitsForWorkers ==
    /\ []((srv.state = "listening" /\ Workers < MaxConns) => ENABLED Accept)
    /\ [][srv'.fresh > srv.fresh
          => /\ srv'.fresh = srv.fresh + 1
             /\ srv.state = "listening"
             /\ srv'.state = "listening"
             /\ pool' = pool]_vars

\* 64 workers hold the connections of the host and a 65th is blocked at the
\* pool, while the server listens and a further connection was just accepted.
C13_Witness ==
    /\ srv.state = "listening"
    /\ pool.leased[1] = 64
    /\ pool.blocked[1] = 1
    /\ srv.fresh = 1
    /\ Workers = 66


\* C14: the server's state changes only from stopped to listening, from
\* listening to shutting-down and from shutting-down to stopped; before it
\* was started no connection has been accepted, so no worker exists.
C14_LifecycleTransitions ==
    /\ []((srv.main \in {"start", "bound"}) =>
            (srv.state = "stopped" /\ Workers = 0))
    /\ [][srv'.state # srv.state
          => \/ srv.state = "stopped" /\ srv'.state = "listening"
             \/ srv.state = "listening" /\ srv'.state = "shutting_down"
             \/ srv.state = "shutting_down" /\ srv'.state = "stopped"]_vars

\* The accept loop has stopped after a shutdown request, main() is still in
\* server.shutdown(), and workers accepted while listening are alive.
C14_Witness ==
    /\ srv.state = "stopped"
    /\ srv.main = "in_shutdown"
    /\ Workers = 2


\* C15: once main() has requested the shutdown the accept loop takes no
\* further connection and no worker is spawned; the steps of the shutdown
\* cancel no worker (the workers spawned and the connections they hold stay
\* as they are), and a worker holding a connection can still finish.
C15_NoAcceptAfterShutdownRequest ==
    /\ [](srv.main \in {"in_shutdown", "returned"} =>
            /\ ~ENABLED Accept
            /\ \A h \in ServerHosts :
                 pool.leased[h] > 0 => ENABLED WorkerDone(h))
    /\ [][srv.main \in {"in_shutdown", "returned", "exited"}
          => srv'.fresh <= srv.fresh]_vars
    /\ [][srv'.main # srv.main \/ srv'.state # srv.state
          => srv'.fresh = srv.fresh /\ pool' = pool]_vars

\* After the shutdown request a worker spawned earlier has finished while
\* another one has not yet asked for its connection.
C15_Witness ==
    /\ srv.state = "shutting_down"
    /\ srv.fresh = 1
    /\ pool.leased[1] = 0
    /\ pool.released[1]
    /\ ~ENABLED Accept


\* C16: once the shutdown has been requested, the accept loop stops,
\* server.shutdown() returns and the process exits, whether or not the
\* workers ever finish.
C16_ShutdownCompletesWithoutWorkers ==
    (srv.state = "shutting_down") ~> (srv.state = "stopped" /\ srv.main = "exited")

\* The process has exited after a shutdown while 64 workers held the
\* connections of the host and another was still blocked acquiring one.
C16_Witness ==
    /\ srv.main = "exited"
    /\ srv.state = "stopped"
    /\ pool.leased[1] = 64
    /\ pool.blocked[1] = 1
    /\ ~pool.released[1]


----------------------------------------------------------------------------
(* Claims about what get and ttl return                                      *)

OthersOf(c, k) == SelectSeq(c, LAMBDA e : e.key # k)

\* C17: get on a present key returns the value last stored under the key by
\* set, leaves the entry with that value and the time of the call as the last
\* entry of the cache, and leaves the other entries and their order unchanged.
C17_GetReturnsStoredAndPromotes ==
    (last.op = "get" /\ HasKey(last.before, last.key)) =>
        LET c == caches["date"]
        IN  /\ last.kind = "value"
            /\ last.val = last.stored[last.key]
            /\ Len(c) = Len(last.before)
            /\ c[Len(c)] = Entry(last.key, last.stored[last.key], last.at)
            /\ OthersOf(c, last.key) = OthersOf(last.before, last.key)

\* get(a) at time 1 found a, stored with value 2 at time 0, in front of b.
C17_Witness ==
    /\ last.op = "get"
    /\ last.key = "a"
    /\ last.at = 1
    /\ last.before = <<Entry("a", 2, 0), Entry("b", 1, 0)>>
    /\ caches["date"] = <<Entry("b", 1, 0), Entry("a", 2, 1)>>

\* C18: get on an absent key returns the default the caller gave, raises
\* nothing, and leaves keys, values, timestamps and order as they were.
C18_GetAbsentReturnsDefault ==
    (last.op = "get" /\ ~HasKey(last.before, last.key)) =>
        /\ last.kind = "value"
        /\ last.val = last.default
        /\ caches["date"] = last.before

\* get(b, default) on a cache that holds only a.
C18_Witness ==
    /\ last.op = "get"
    /\ last.key = "b"
    /\ last.default = Missing
    /\ last.val = Missing
    /\ last.before = <<Entry("a", 1, 0)>>

\* A get found its entry idle for maxduration or longer.
GetOfStale(l) == l.op = "get" /\ l.stale

\* C19 as stated: get on an entry that is expired but not yet swept returns
\* its value and refreshes it, and the set that follows keeps the entry.
C19_RefreshedEntrySurvivesNextSet ==
    /\ GetOfStale(last) =>
         /\ last.kind = "value"
         /\ last.val = last.stored[last.key]
         /\ Lookup(caches["date"], last.key).ts = last.at
    /\ (last.op = "set" /\ GetOfStale(last.prev)) =>
         HasKey(caches["date"], last.prev.key)

\* C19, amended: get on an entry that is expired but not yet swept returns
\* its value and refreshes it; the age phase of the set that follows does not
\* remove the entry when that set runs less than maxduration after the get
\* (its size phase still may).
C19_RefreshedEntrySurvivesAgePhase ==
    /\ GetOfStale(last) =>
         /\ last.kind = "value"
         /\ last.val = last.stored[last.key]
         /\ Lookup(caches["date"], last.key).ts = last.at
    /\ (/\ last.op = "set"
        /\ GetOfStale(last.prev)
        /\ last.at - last.prev.at < maxduration
        /\ HasKey(last.sized, last.prev.key)) =>
         HasKey(caches["date"], last.prev.key)

\* a, set at time 0, was read at time 1 when it had expired; set(b) at time 1
\* ran its eviction pass and a is still there.
C19_Witness ==
    /\ last.op = "set"
    /\ last.key = "b"
    /\ last.at = 1
    /\ GetOfStale(last.prev)
    /\ last.prev.key = "a"
    /\ last.prev.at = 1
    /\ last.before = <<Entry("a", 1, 1)>>
    /\ caches["date"] = <<Entry("a", 1, 1), Entry("b", 1, 1)>>

\* C20: ttl on an absent key ends in KeyError, with or without a maxduration.
C20_TtlAbsentKeyFails ==
    (last.op = "ttl" /\ ~HasKey(last.before, last.key)) =>
        last.kind = "KeyError"


\* Some entry of cache c has been idle for maxduration or longer at time t.
SomeStale(c, t) == \E i \in 1..Len(c) : Stale(c, c[i].key, t)

\* C21: ttl, items and values leave the cache as it was (keys, values,
\* timestamps, order), expired entries included; items and values yield the
\* contents in the order of the cache.
C21_TtlItemsValuesChangeNothing ==
    /\ last.op \in {"ttl", "items", "values"} => caches["date"] = last.before
    /\ last.op = "items" =>
         /\ Len(last.listed) = Len(last.before)
         /\ \A i \in 1..Len(last.before) :
              last.listed[i] = <<last.before[i].key, last.before[i].val>>
    /\ last.op = "values" =>
         /\ Len(last.listed) = Len(last.before)
         /\ \A i \in 1..Len(last.before) :
              last.listed[i] = last.before[i].val

\* items() listed a and b at time 1, when both had expired, and ttl(a) had
\* been asked just before: both entries are still there, stamped 0.
C21_Witness ==
    /\ last.op = "items"
    /\ last.prev.op = "ttl"
    /\ last.prev.stale
    /\ last.at = 1
    /\ last.listed = << <<"a", 1>>, <<"b", 2>> >>
    /\ SomeStale(last.before, last.at)
    /\ caches["date"] = <<Entry("a", 1, 0), Entry("b", 2, 0)>>

\* C22: with a maxduration T, ttl of a present key is T minus the idle age of
\* the entry: T right after the set of that key, smaller than at an earlier
\* ttl with no get or set in between, and zero or less once the entry has
\* been idle for T or longer.
C22_TtlIsDurationMinusIdleAge ==
    (last.op = "ttl" /\ maxduration > 0 /\ HasKey(last.before, last.key)) =>
        /\ last.kind = "value"
        /\ last.val = maxduration - (last.at - Lookup(last.before, last.key).ts)
        /\ (last.prev.op = "set" /\ last.prev.key = last.key
            /\ last.prev.at = last.at) => last.val = maxduration
        /\ (last.prev.op = "ttl" /\ last.prev.key = last.key
            /\ last.prev.at < last.at) => last.val < last.prev.val
        /\ last.stale => last.val <= 0

\* ttl(a) two ticks after an earlier ttl(a), on an entry that expired in
\* between without being swept: the answer is negative.
C22_Witness ==
    /\ last.op = "ttl"
    /\ last.prev.op = "ttl"
    /\ last.prev.key = last.key
    /\ last.prev.val = maxduration
    /\ last.at = last.prev.at + 2
    /\ last.val = 0 - 1
    /\ maxduration = 1


\* C24: when binding the listening port has failed, main() has logged the
\* error and returned 1; the server is stopped, the serving thread cannot be
\* started, no connection can be accepted and no worker exists.
C24_BindFailureIsFatal ==
    srv.bind = "failed" =>
        /\ srv.err
        /\ srv.main \in {"returned", "exited"}
        /\ srv.code = 1
        /\ srv.state = "stopped"
        /\ Workers = 0
        /\ ~ENABLED StartServing
        /\ ~ENABLED Accept

\* The process has exited after the bind failure.
C24_Witness ==
    /\ srv.bind = "failed"
    /\ srv.main = "exited"
    /\ srv.code = 1
    /\ Workers = 0


----------------------------------------------------------------------------
(* Claims about startup                                                      *)

Newlines(content) == Cardinality({i \in 1..Len(content) : content[i] = "nl"})

RECURSIVE JoinLines(_)
JoinLines(lines) ==
    IF lines = <<>> THEN <<>>
    ELSE IF Len(lines) = 1 THEN lines[1]
         ELSE lines[1] \o <<"nl">> \o JoinLines(Tail(lines))

\* list is exactly the lines of content: no line holds a newline, the lines
\* joined by newlines give the content back (up to a final newline), and
\* there are as many lines as newlines, plus one for an unterminated last
\* line.
ExactlyTheLines(list, content) ==
    /\ \A i \in 1..Len(list) : \A j \in 1..Len(list[i]) : list[i][j] # "nl"
    /\ \/ JoinLines(list) = content
       \/ JoinLines(list) \o <<"nl">> = content
    /\ Len(list) = Newlines(content)
                   + (IF content # <<>> /\ content[Len(content)] # "nl"
                      THEN 1 ELSE 0)

\* C23: loading the whitelist never aborts startup; once it has run, the
\* whitelist is empty when the file is missing or reading it failed, and is
\* exactly the lines of the file otherwise.
C23_WhitelistLoadNeverAborts ==
    /\ srv.main # "aborted"
    /\ srv.main = "boot" => srv.whitelist = <<>>
    /\ srv.main # "boot" =>
         IF srv.file.exists /\ ~srv.file.fails
         THEN ExactlyTheLines(srv.whitelist, srv.file.content)
         ELSE srv.whitelist = <<>>

\* Reading the file failed, the whitelist is empty, and the server was
\* started all the same.
C23_Witness ==
    /\ srv.file.exists
    /\ srv.file.fails
    /\ srv.file.content # <<>>
    /\ srv.whitelist = <<>>
    /\ srv.state = "listening"


----------------------------------------------------------------------------
(* Claims about the two caches                                               *)

\* C25: a get or a set on one cache, with the evictions it makes, leaves the
\* other cache as it was: keys, values, timestamps and order.
C25_CachesShareNoStorage ==
    last.op \in {"set", "get"} =>
        caches[OtherCache(last.cid)] = last.other

\* A set on the availability cache evicted there for size while the date
\* cache kept its entry.
C25_Witness ==
    /\ last.op = "set"
    /\ last.cid = "avail"
    /\ last.key = "b"
    /\ last.before = <<Entry("a", 1, 0)>>
    /\ caches["avail"] = <<Entry("b", 1, 1)>>
    /\ caches["date"] = <<Entry("a", 1, 0)>>


\* C26: with maxsize = 0 the size phase of a set removes nothing, whatever
\* the number of entries; every entry the set removes had been idle for
\* maxduration or longer when the age phase ran, and without a maxduration
\* the set removes nothing at all.
C26_ZeroMaxsizeSkipsSizePhase ==
    (maxsize = 0 /\ last.op = "set") =>
        /\ last.sized = last.written
        /\ \A i \in 1..Len(last.written) :
             ~HasKey(caches[last.cid], last.written[i].key) =>
                 /\ maxduration # 0
                 /\ last.done - last.written[i].ts >= maxduration

\* With maxsize = 0 the cache holds three entries after a set.
C26_Witness ==
    /\ maxsize = 0
    /\ last.op = "set"
    /\ Len(caches[last.cid]) = 3
    /\ Len(last.sized) = 3


----------------------------------------------------------------------------
(* Claims about the date selector                                            *)

\* C27: the selected date is never earlier than 1996-05-10 and never later
\* than today.
C27_SelectedDateInWaybackRange ==
    /\ ui.year * 10000 + ui.month * 100 + ui.day >= 19960510
    /\ InWaybackRange(ui.year, ui.month, ui.day)

\* C29: a toggle moves the selected segment along Y -> M -> D -> Y and leaves
\* year, month and day as they were; three toggles in a row lead back to the
\* segment they started from.
C29_ToggleCyclesSegments ==
    /\ ui.op = "toggle" =>
         /\ ui.year = ui.before.year
         /\ ui.month = ui.before.month
         /\ ui.day = ui.before.day
         /\ <<ui.before.seg, ui.seg>> \in
              {<<"Y", "M">>, <<"M", "D">>, <<"D", "Y">>}
    /\ ToggleSegment(ToggleSegment(ToggleSegment(ui.seg))) = ui.seg
    /\ ToggleSegment(ToggleSegment(ui.seg)) # ui.seg
    /\ ToggleSegment(ui.seg) # ui.seg

\* The third toggle in a row selected the year again, on a date that had
\* been changed before.
C29_Witness ==
    /\ ui.op = "toggle"
    /\ ui.before.seg = "D"
    /\ ui.seg = "Y"
    /\ ui.line = "blank"
    /\ <<ui.year, ui.month, ui.day>> = <<1997, 2, 28>>

\* C30: year, month and day form a calendar date: the day is not beyond the
\* last day of the selected month of the selected year.
C30_SelectionIsCalendarDate ==
    IsDate(ui.year, ui.month, ui.day)


\* C28: a step of update_date_from_external that takes the date puts it in
\* the selector and on the date line of the display, and leaves Handler.DATE,
\* both caches and the position of the date-change callback as they were:
\* the callback is not invoked.
C28_ExternalUpdateSkipsCallback ==
    [][(ui' # ui /\ ui'.op = "external")
       => /\ DATE' = DATE
          /\ caches' = caches
          /\ clearPc' = clearPc
          /\ ui'.line = SelectionOf(ui')
          /\ <<ui'.year, ui'.month, ui'.day>> \in ExternalDates
          /\ ui'.seg = ui.seg]_vars

\* The web interface pushed 1998-01-31 while the proxy served 1997-06-30:
\* the selector and the display show the new date, Handler.DATE is the old
\* one and both caches still hold their entries.
C28_Witness ==
    /\ ui.op = "external"
    /\ <<ui.year, ui.month, ui.day>> = <<1998, 1, 31>>
    /\ ui.line = SelectionOf(ui)
    /\ DATE = 19970630
    /\ caches["date"] # <<>>
    /\ caches["avail"] # <<>>
    /\ clearPc = "idle"


----------------------------------------------------------------------------
(* Claims about the controller and the date-change callback                  *)

\* C31: on_date_change is invoked only by a step that changes the selected
\* date: a step that starts the callback also changes year, month or day.
C31_CallbackOnlyOnDateChange ==
    [][(clearPc = "idle" /\ clearPc' = "clear_date")
       => <<ui'.year, ui'.month, ui'.day>> # <<ui.year, ui.month, ui.day>>]_vars


----------------------------------------------------------------------------
(* Claims about a single caller's set                                        *)

RemovedFrom(c, d) == {c[i] : i \in {j \in 1..Len(c) : ~HasKey(d, c[j].key)}}

\* No entry of c has been idle for maxduration at time t.
NoneExpired(c, t) ==
    maxduration = 0 \/ \A i \in 1..Len(c) : t - c[i].ts < maxduration

\* C35: a single caller's set removes an entry only in the size phase, when
\* the count exceeded maxsize, or in the age phase, when the entry had been
\* idle for maxduration or longer; a new key written into a full cache with
\* no expired entry evicts exactly one entry; an overwrite evicts none for
\* size.
C35_SetRemovesOnlyForSizeOrAge ==
    last.op = "set" =>
        /\ \A e \in RemovedFrom(last.written, last.sized) :
               maxsize # 0 /\ Len(last.written) > maxsize
        /\ \A e \in RemovedFrom(last.sized, caches[last.cid]) :
               maxduration # 0 /\ last.done - e.ts >= maxduration
        /\ (/\ maxsize >= 1
            /\ Len(last.before) = maxsize
            /\ ~HasKey(last.before, last.key)
            /\ NoneExpired(last.written, last.done))
           => Cardinality(RemovedFrom(last.written, caches[last.cid])) = 1
        /\ HasKey(last.before, last.key) => last.sized = last.written

\* A new key was written into a full cache none of whose entries had expired,
\* after time had passed, and one entry was evicted.
C35_Witness ==
    /\ last.op = "set"
    /\ maxsize >= 1 /\ maxduration # 0
    /\ Len(last.before) = maxsize
    /\ ~HasKey(last.before, last.key)
    /\ NoneExpired(last.written, last.done)
    /\ last.done > 0
    /\ Len(caches[last.cid]) = maxsize


----------------------------------------------------------------------------
(* Claims about concurrent callers of one cache                              *)

\* C33: get never changes the value stored under a key: once every call has
\* returned, a key that is present holds the value of the set that wrote it
\* last, whatever gets ran concurrently with that set.
C33_GetKeepsStoredValue ==
    \A w \in Threads :
        (/\ \A t \in Threads : pc[t] = "idle"
         /\ writer = w
         /\ loc[w].op = "set"
         /\ HasKey(caches[loc[w].cid], loc[w].key))
        => Lookup(caches[loc[w].cid], loc[w].key).val = loc[w].val


\* C34: purge never pops from, nor looks at the front of, an empty cache: no
\* set ends with an error raised inside purge.
C34_PurgeNeverFailsOnEmptyCache ==
    \A t \in Threads : out[t].kind \notin {"KeyError", "StopIteration"}


----------------------------------------------------------------------------
(* Claims about the input side of the UI                                     *)

\* C38: the decoder reports a rotation only for an edge that leaves both
\* sampled levels high and comes from another pin than the edge before: +1
\* when the edge is on channel A, -1 when it is on channel B; an edge on the
\* same pin as the one before reports nothing.
C38_DecoderReportsOnBothHighFromOtherPin ==
    /\ inp.edge.fired # 0 =>
          /\ inp.levA = 1 /\ inp.levB = 1
          /\ inp.edge.level = 1
          /\ inp.edge.channel # inp.edge.prev
          /\ inp.edge.fired = (IF inp.edge.channel = "A" THEN 1 ELSE 0 - 1)
          /\ inp.queue # <<>>
          /\ inp.queue[Len(inp.queue)].delta = inp.edge.fired
    /\ inp.edge.channel = inp.edge.prev => inp.edge.fired = 0
    /\ Len(inp.queue) <= inp.events

\* Channel B went high after channel A, and -1 was reported after a +1.
C38_Witness ==
    /\ inp.edge.fired = 0 - 1
    /\ inp.edge.channel = "B"
    /\ inp.edge.prev = "A"
    /\ Len(inp.queue) = 2
    /\ inp.queue[1].delta = 1


\* The arrival numbers of the deltas handled, in the order they were handled.
AppliedNumbers == [i \in 1..Len(inp.applied) |-> inp.applied[i].n]

\* C36: every rotation delta enqueued before shutdown is requested is
\* eventually handled by the loop; the deltas are handled in arrival order,
\* none twice.
C36_EveryEarlyDeltaIsApplied ==
    /\ \A n \in 1..MaxInputs :
          [](n \in inp.early => <>(\E i \in 1..Len(inp.applied) : inp.applied[i].n = n))
    /\ [](\A i, j \in 1..Len(inp.applied) :
              i < j => AppliedNumbers[i] < AppliedNumbers[j])

\* C37: input events take effect in order: a rotation is applied to the
\* segment that was selected when the rotation arrived.
C37_RotationAppliedToSegmentOfItsTime ==
    \A i \in 1..Len(inp.applied) : inp.applied[i].on = inp.applied[i].seg


----------------------------------------------------------------------------
(* Claims about main()                                                       *)

\* C39: the shared state (pool, caches, whitelist) and the handler's
\* configuration are assigned before the server accepts: while the server
\* listens or a worker exists, shared_state and Handler.DATE are set and the
\* whitelist is the one loaded from the file.
C39_ConfiguredBeforeAccepting ==
    (srv.state = "listening" \/ Workers > 0) =>
        /\ srv.shared
        /\ srv.dated
        /\ srv.whitelist = LoadWhitelist(srv.file).list
        /\ pool = EmptyPool
        /\ \A id \in CacheIds : caches[id] = <<>>

\* Workers run after main() loaded a whitelist with entries and configured
\* the handler.
C39_Witness ==
    /\ Workers > 1
    /\ srv.state = "listening"
    /\ srv.shared /\ srv.dated
    /\ Len(srv.whitelist) > 1

====
